---- MODULE Spec2Model ----
(***************************************************************************)
(* AssetService (src/index.ts): service-window calculation, settlement of  *)
(* payment and refund callbacks against orders and assets, and the batch   *)
(* binding of devices to a user.                                           *)
(*                                                                         *)
(* Every await of the service is a point where other calls may run, so a   *)
(* call is a small process: one action per storage or downstream request,  *)
(* each followed by the synchronous code up to the next await.  The        *)
(* arguments of a call are the snapshot its caller read before calling.    *)
(* Times are whole days; a missing time or number is Null, a missing id or *)
(* string is NoId.                                                         *)
(*                                                                         *)
(* No await of the service is guarded by try/catch, so a request that      *)
(* rejects rejects the call.  The requests a handler issues after it has   *)
(* marked the order processed (asset and coupon updates, event             *)
(* publication, profit sharing), the binding transaction and the requests  *)
(* after it may reject; the first order update of a handler is taken to    *)
(* succeed.                                                                *)
(***************************************************************************)
EXTENDS Integers, Sequences, FiniteSets, TLC

Null == -1
NoId == "null"

\* ---- bounds of the model ----
MaxNow == 1          \* the clock runs over 0..MaxNow
MaxDeliveries == 2   \* calls made to the service in one run

\* ---- the data of a run ----
OrderIds == {"o1", "o2", "o3"}
AssetIds == {"a1", "a2"}
TrackerIds == {"t1", "t2"}
CouponIds == {"k1", "k2"}
UserIds == {"u1", "u2"}
Calls == {"c1", "c2"}

Activate == "Activate"
Renewal == "Renewal"
DOUBLE_TWELVE == "DOUBLE_TWELVE"
AlarmTypeEnums == {"alarmA", "alarmB"}

\* what the payment gateway reports for an order: the same on every redelivery
Amount == 100
PaidAt == 0
TransactionId == "wx1"
Attach(o) == IF o = "o2" THEN "k1" ELSE IF o = "o3" THEN "k2" ELSE NoId

VARIABLES
    now,            \* getNow()
    trackers,       \* table tracker (provisioned before the run, only read here)
    orders,         \* table assetServicePeriodOrder
    assets,         \* table asset
    coupons,        \* table coupon
    notifConfigs,   \* table assetNotificationConfig: records per asset
    serviceApplied, \* history: orders whose settlement wrote the asset row
    lookup,         \* the call of a synchronous helper: its arguments and its result
    cdcEvents,      \* device-changed events published, per tracker
    profitSharing,  \* profit-sharing records created, per order
    calls,          \* the calls in flight
    delivered       \* calls made so far

vars == <<now, trackers, orders, assets, coupons, notifConfigs, cdcEvents, profitSharing,
          calls, delivered, serviceApplied, lookup>>

db == <<orders, assets, coupons, notifConfigs>>
downstream == <<cdcEvents, profitSharing>>

\* ---- date arithmetic (src/dto/logic/calculate, src/common/time-helper) ----
TimeUnits == {"day", "week"}

UnitLength(timeUnit) == IF timeUnit = "week" THEN 7 ELSE 1

calculateEndTime(startTime, duration, timeUnit) ==
    IF startTime = Null THEN Null ELSE startTime + duration * UnitLength(timeUnit)

NoGift == [duration |-> Null, timeUnit |-> NoId]
NoRange == [startTime |-> Null, endTime |-> Null]

calculateServiceEndTimeForRenew(currentServiceEndTime, rule, gift) ==
    LET endTime == calculateEndTime(currentServiceEndTime, rule.duration, rule.timeUnit)
    IN  IF gift = NoGift THEN endTime
        ELSE calculateEndTime(endTime, gift.duration, gift.timeUnit)

\* ---- calculateServiceTimeRangeForOpen ----
calculateEndTimeForGift(startTime, rule, gift) ==
    LET endTime == calculateEndTime(startTime, rule.duration, rule.timeUnit)
    IN  IF gift = NoGift THEN endTime
        ELSE calculateEndTime(endTime, gift.duration, gift.timeUnit)

\* current is getNow()
\* variant: the silent period is ignored
calculateServiceTimeRangeForOpenFromNow(tracker, rule, gift, current) ==
    [startTime |-> current, endTime |-> calculateEndTimeForGift(current, rule, gift)]

calculateServiceTimeRangeForOpen(tracker, rule, gift, current) ==
    IF current < tracker.silentPeriodEndTime
    THEN [startTime |-> current, endTime |-> calculateEndTimeForGift(current, rule, gift)]
    ELSE [startTime |-> tracker.silentPeriodEndTime,
          endTime |-> calculateEndTimeForGift(tracker.silentPeriodEndTime, rule, gift)]

\* ---- the arguments the settlement handlers build from an order ----
OrderRule(order) ==
    [duration |-> order.servicePeriod, timeUnit |-> order.servicePeriodTimeUnit]

OrderGift(order) ==
    IF order.giftDuration = Null \/ order.giftTimeUnit = NoId THEN NoGift
    ELSE [duration |-> order.giftDuration, timeUnit |-> order.giftTimeUnit]

\* ---- rows ----
NoOrder ==
    [id |-> NoId, assetId |-> NoId, orderTarget |-> NoId,
     servicePeriod |-> Null, servicePeriodTimeUnit |-> NoId,
     giftDuration |-> Null, giftTimeUnit |-> NoId, isNeedProfitSharing |-> FALSE,
     paidAmount |-> Null, paidAt |-> Null, externalOrderNumber |-> NoId,
     processedAt |-> Null, refundApplyAt |-> Null,
     refundedAmount |-> Null, refundedAt |-> Null]

NoAsset ==
    [id |-> NoId, trackerId |-> NoId, userId |-> NoId,
     serviceStartTime |-> Null, serviceEndTime |-> Null, trackerBoundAt |-> Null]

NoCoupon == [id |-> NoId, activity |-> NoId, usedAt |-> Null, orderId |-> NoId]

\* ---- calls ----
IdleCall ==
    [kind |-> "none", pc |-> "idle", outcome |-> "pending", failedAt |-> "none",
     order |-> NoOrder, tracker |-> NoId, userAsset |-> NoAsset, attach |-> NoId,
     amount |-> Null, at |-> Null, processedAt |-> Null,
     timeRange |-> NoRange, newServiceEndTime |-> Null, coupon |-> NoId,
     userId |-> NoId, devices |-> <<>>, nowtime |-> Null, committed |-> FALSE,
     attempted |-> {}]

\* O.none, O.some(message), or the rejection of the returned promise
Success == "O.none"
Resolved == "resolved"
OrderProcessed == "order has been processed"
UnknownTarget == "unknown order target"
EndTimeIsNull == "userAsset service end time is null"
OrderRefunded == "order has been refunded"
Rejected == "rejected"

IsSome(outcome) == outcome \in {OrderProcessed, UnknownTarget, EndTimeIsNull, OrderRefunded}

\* what is left of a call once it has returned: its result and what it was about
Returned(k) ==
    [IdleCall EXCEPT !.kind = k.kind, !.pc = "done",
                     !.order = [NoOrder EXCEPT !.id = k.order.id],
                     !.devices = [i \in 1..Len(k.devices) |->
                                    [tracker |-> k.devices[i].tracker,
                                     asset |-> [NoAsset EXCEPT !.id = k.devices[i].asset.id],
                                     isRelatedOpen |-> FALSE,
                                     serviceTimeRange |-> NoRange]],
                     !.committed = k.committed, !.attempted = k.attempted]

Return(k, outcome) == [Returned(k) EXCEPT !.outcome = outcome]
Reject(k, step) == [Returned(k) EXCEPT !.outcome = Rejected, !.failedAt = step]

Running(c) == calls[c].pc \notin {"idle", "done"}

\* a call starts in a slot whose previous call has returned
FreeSlot(c) ==
    /\ ~Running(c)
    /\ c = "c1" \/ Running("c1")
    /\ delivered < MaxDeliveries


\* ---- the callers' reads ----
\* getOrderAndDeviceDataByOrderNumber, then the call of handlePaySuccess with
\* what was read and the gateway's amount, time, transaction id and attach
GetOrderAndDeviceDataByOrderNumber(c, o) ==
    /\ FreeSlot(c)
    /\ calls' = [calls EXCEPT ![c] =
          [IdleCall EXCEPT !.kind = "pay", !.pc = "called",
                           !.order = orders[o],
                           !.userAsset = assets[orders[o].assetId],
                           !.tracker = assets[orders[o].assetId].trackerId,
                           !.amount = Amount, !.at = PaidAt, !.attach = Attach(o)]]
    /\ delivered' = delivered + 1
    /\ UNCHANGED <<now, trackers, lookup, serviceApplied, db, downstream>>

\* getOrderByRefundOrderNumber, then the call of handleRefundSuccess
GetOrderByRefundOrderNumber(c, o) ==
    /\ FreeSlot(c)
    /\ calls' = [calls EXCEPT ![c] =
          [IdleCall EXCEPT !.kind = "refund", !.pc = "called",
                           !.order = orders[o], !.amount = Amount, !.at = now]]
    /\ delivered' = delivered + 1
    /\ UNCHANGED <<now, trackers, lookup, serviceApplied, db, downstream>>

\* ---- handlePaySuccess ----
\* variant: no guard
NeverProcessed(order) == FALSE

AlreadyProcessed(order) == order.processedAt # Null

HandlePaySuccess(c) ==
    LET k == calls[c] IN
    /\ k.kind = "pay" /\ k.pc = "called"
    /\ calls' = [calls EXCEPT ![c] =
          IF AlreadyProcessed(k.order) THEN Return(k, OrderProcessed)
          ELSE IF k.order.orderTarget = Activate
               THEN [k EXCEPT !.pc = "activate_order", !.processedAt = now]
          ELSE IF k.order.orderTarget = Renewal
               THEN [k EXCEPT !.pc = "renew_order", !.processedAt = now]
          ELSE Return(k, UnknownTarget)]
    /\ UNCHANGED <<now, trackers, lookup, serviceApplied, db, downstream, delivered>>

\* data of the order update both handlers issue first: where id = order.id only
PaidOrder(row, k) ==
    [row EXCEPT !.paidAmount = k.amount, !.paidAt = k.at,
                !.externalOrderNumber = TransactionId,
                !.processedAt = k.processedAt]

\* ---- handleActivateSuccess ----
ActivateOrderUpdate(c) ==
    LET k == calls[c] IN
    /\ k.kind = "pay" /\ k.pc = "activate_order"
    /\ orders' = [orders EXCEPT ![k.order.id] = PaidOrder(@, k)]
    /\ calls' = [calls EXCEPT ![c] =
          [k EXCEPT !.pc = "activate_asset",
                    !.timeRange = calculateServiceTimeRangeForOpen(
                        trackers[k.tracker], OrderRule(k.order), OrderGift(k.order), now)]]
    /\ UNCHANGED <<now, trackers, lookup, serviceApplied, assets, coupons, notifConfigs, downstream, delivered>>

ActivateAssetUpdate(c) ==
    LET k == calls[c] IN
    /\ k.kind = "pay" /\ k.pc = "activate_asset"
    /\ \E ok \in BOOLEAN :
          IF ok
          THEN /\ assets' = [assets EXCEPT ![k.userAsset.id] =
                      [@ EXCEPT !.serviceStartTime = k.timeRange.startTime,
                                !.serviceEndTime = k.timeRange.endTime]]
               /\ calls' = [calls EXCEPT ![c] = [k EXCEPT !.pc = "activate_cdc"]]
               /\ serviceApplied' = serviceApplied \cup {k.order.id}
          ELSE /\ assets' = assets
               /\ calls' = [calls EXCEPT ![c] = Reject(k, "asset")]
               /\ serviceApplied' = serviceApplied
    /\ UNCHANGED <<now, trackers, lookup, orders, coupons, notifConfigs, downstream, delivered>>

ActivateSendToCDC(c) ==
    LET k == calls[c] IN
    /\ k.kind = "pay" /\ k.pc = "activate_cdc"
    /\ \E ok \in BOOLEAN :
          IF ok
          THEN /\ cdcEvents' = [cdcEvents EXCEPT ![k.tracker] = @ + 1]
               /\ calls' = [calls EXCEPT ![c] =
                     IF k.order.isNeedProfitSharing
                     THEN [k EXCEPT !.pc = "activate_profit"]
                     ELSE Return(k, Success)]
          ELSE /\ cdcEvents' = cdcEvents
               /\ calls' = [calls EXCEPT ![c] = Reject(k, "cdc")]
    /\ UNCHANGED <<now, trackers, lookup, serviceApplied, db, profitSharing, delivered>>

ActivateProfitSharing(c) ==
    LET k == calls[c] IN
    /\ k.kind = "pay" /\ k.pc = "activate_profit"
    /\ \E ok \in BOOLEAN :
          IF ok
          THEN /\ profitSharing' = [profitSharing EXCEPT ![k.order.id] = @ + 1]
               /\ calls' = [calls EXCEPT ![c] = Return(k, Success)]
          ELSE /\ profitSharing' = profitSharing
               /\ calls' = [calls EXCEPT ![c] = Reject(k, "profit")]
    /\ UNCHANGED <<now, trackers, lookup, serviceApplied, db, cdcEvents, delivered>>

\* ---- handleRenewSuccess ----
isNullOrEmptyString(str) == str = NoId \/ str = ""

\* variant: no precondition
EndTimeNeverMissing(userAsset) == FALSE

EndTimeMissing(userAsset) == userAsset.serviceEndTime = Null

NewServiceEndTime(k) ==
    calculateServiceEndTimeForRenew(k.userAsset.serviceEndTime,
                                    OrderRule(k.order), OrderGift(k.order))

RenewOrderUpdate(c) ==
    LET k == calls[c] IN
    /\ k.kind = "pay" /\ k.pc = "renew_order"
    /\ orders' = [orders EXCEPT ![k.order.id] = PaidOrder(@, k)]
    /\ calls' = [calls EXCEPT ![c] =
          IF EndTimeMissing(k.userAsset) THEN Return(k, EndTimeIsNull)
          ELSE IF ~isNullOrEmptyString(k.attach)
               THEN [k EXCEPT !.pc = "renew_coupon_find"]
          ELSE [k EXCEPT !.pc = "renew_asset",
                         !.newServiceEndTime = NewServiceEndTime(k)]]
    /\ UNCHANGED <<now, trackers, lookup, serviceApplied, assets, coupons, notifConfigs, downstream, delivered>>

\* coupon.findFirst({id: attach, activity: DOUBLE_TWELVE, usedAt: null})
FindCoupon(attach) ==
    IF /\ attach \in CouponIds
       /\ coupons[attach].activity = DOUBLE_TWELVE
       /\ coupons[attach].usedAt = Null
    THEN attach ELSE NoId

RenewCouponFind(c) ==
    LET k == calls[c] IN
    /\ k.kind = "pay" /\ k.pc = "renew_coupon_find"
    /\ calls' = [calls EXCEPT ![c] =
          IF FindCoupon(k.attach) # NoId
          THEN [k EXCEPT !.pc = "renew_coupon", !.coupon = FindCoupon(k.attach),
                         !.nowtime = now]
          ELSE [k EXCEPT !.pc = "renew_asset",
                         !.newServiceEndTime = NewServiceEndTime(k)]]
    /\ UNCHANGED <<now, trackers, lookup, serviceApplied, db, downstream, delivered>>

RenewCouponUpdate(c) ==
    LET k == calls[c] IN
    /\ k.kind = "pay" /\ k.pc = "renew_coupon"
    /\ \E ok \in BOOLEAN :
          IF ok
          THEN /\ coupons' = [coupons EXCEPT ![k.coupon] =
                      [@ EXCEPT !.usedAt = k.nowtime, !.orderId = k.order.id]]
               /\ calls' = [calls EXCEPT ![c] =
                     [k EXCEPT !.pc = "renew_asset",
                               !.newServiceEndTime = NewServiceEndTime(k)]]
          ELSE /\ coupons' = coupons
               /\ calls' = [calls EXCEPT ![c] = Reject(k, "coupon")]
    /\ UNCHANGED <<now, trackers, lookup, serviceApplied, orders, assets, notifConfigs, downstream, delivered>>

\* variant: the renewal also restarts the window
RenewedAssetWithStart(row, k) ==
    [row EXCEPT !.serviceStartTime = k.at, !.serviceEndTime = k.newServiceEndTime]

RenewedAsset(row, k) == [row EXCEPT !.serviceEndTime = k.newServiceEndTime]

RenewAssetUpdate(c) ==
    LET k == calls[c] IN
    /\ k.kind = "pay" /\ k.pc = "renew_asset"
    /\ \E ok \in BOOLEAN :
          IF ok
          THEN /\ assets' = [assets EXCEPT ![k.userAsset.id] = RenewedAsset(@, k)]
               /\ calls' = [calls EXCEPT ![c] =
                     IF k.userAsset.trackerId # NoId
                     THEN [k EXCEPT !.pc = "renew_cdc"]
                     ELSE IF k.order.isNeedProfitSharing
                          THEN [k EXCEPT !.pc = "renew_profit"]
                          ELSE Return(k, Success)]
               /\ serviceApplied' = serviceApplied \cup {k.order.id}
          ELSE /\ assets' = assets
               /\ calls' = [calls EXCEPT ![c] = Reject(k, "asset")]
               /\ serviceApplied' = serviceApplied
    /\ UNCHANGED <<now, trackers, lookup, orders, coupons, notifConfigs, downstream, delivered>>

RenewSendToCDC(c) ==
    LET k == calls[c] IN
    /\ k.kind = "pay" /\ k.pc = "renew_cdc"
    /\ \E ok \in BOOLEAN :
          IF ok
          THEN /\ cdcEvents' = [cdcEvents EXCEPT ![k.userAsset.trackerId] = @ + 1]
               /\ calls' = [calls EXCEPT ![c] =
                     IF k.order.isNeedProfitSharing
                     THEN [k EXCEPT !.pc = "renew_profit"]
                     ELSE Return(k, Success)]
          ELSE /\ cdcEvents' = cdcEvents
               /\ calls' = [calls EXCEPT ![c] = Reject(k, "cdc")]
    /\ UNCHANGED <<now, trackers, lookup, serviceApplied, db, profitSharing, delivered>>

RenewProfitSharing(c) ==
    LET k == calls[c] IN
    /\ k.kind = "pay" /\ k.pc = "renew_profit"
    /\ \E ok \in BOOLEAN :
          IF ok
          THEN /\ profitSharing' = [profitSharing EXCEPT ![k.order.id] = @ + 1]
               /\ calls' = [calls EXCEPT ![c] = Return(k, Success)]
          ELSE /\ profitSharing' = profitSharing
               /\ calls' = [calls EXCEPT ![c] = Reject(k, "profit")]
    /\ UNCHANGED <<now, trackers, lookup, serviceApplied, db, cdcEvents, delivered>>

\* ---- handleRefundSuccess ----
\* variant: no guard
NeverRefunded(order) == FALSE

AlreadyRefunded(order) == order.refundedAt # Null

HandleRefundSuccess(c) ==
    LET k == calls[c] IN
    /\ k.kind = "refund" /\ k.pc = "called"
    /\ calls' = [calls EXCEPT ![c] =
          IF AlreadyRefunded(k.order) THEN Return(k, OrderRefunded)
          ELSE [k EXCEPT !.pc = "refund_order"]]
    /\ UNCHANGED <<now, trackers, lookup, serviceApplied, db, downstream, delivered>>

\* variant: the refund also takes the payment off the order
RefundedOrderUnpaid(row, k) ==
    [row EXCEPT !.refundedAmount = k.amount, !.refundedAt = k.at, !.paidAmount = 0]

\* the data of the order update of a refund
RefundedOrder(row, k) == [row EXCEPT !.refundedAmount = k.amount, !.refundedAt = k.at]

RefundOrderUpdate(c) ==
    LET k == calls[c] IN
    /\ k.kind = "refund" /\ k.pc = "refund_order"
    /\ orders' = [orders EXCEPT ![k.order.id] = RefundedOrder(@, k)]
    /\ calls' = [calls EXCEPT ![c] = Return(k, Success)]
    /\ UNCHANGED <<now, trackers, lookup, serviceApplied, assets, coupons, notifConfigs, downstream, delivered>>

\* ---- bindDevicesToUser ----
\* the open rule chooseOpenRule resolved for the devices' package
OpenRule == [chargeDuration |-> 1, chargeTimeUnit |-> "week"]

Batches == {<<"t1">>, <<"t2">>, <<"t1", "t2">>}

\* the users devices are bound to in a run (u1 owns what was bound before it)
Binders == {"u2"}

\* the caller reads the trackers with their assets and resolves their packages,
\* then calls bindDevicesToUser
BatchQueryTrackerAsset(c, batch, user) ==
    /\ FreeSlot(c)
    /\ calls' = [calls EXCEPT ![c] =
          [IdleCall EXCEPT
             !.kind = "bind", !.pc = "called", !.userId = user,
             !.devices = [i \in 1..Len(batch) |->
                            [tracker |-> batch[i],
                             asset |-> assets[trackers[batch[i]].assetId],
                             isRelatedOpen |-> trackers[batch[i]].isRelatedOpen,
                             serviceTimeRange |-> NoRange]]]]
    /\ delivered' = delivered + 1
    /\ UNCHANGED <<now, trackers, lookup, serviceApplied, db, downstream>>

\* devicesWithServiceTimeRange of bindDevicesToUser
WithServiceTimeRange(x) ==
    [x EXCEPT !.serviceTimeRange =
        IF x.isRelatedOpen
        THEN calculateServiceTimeRangeForOpen(
                 trackers[x.tracker],
                 [duration |-> OpenRule.chargeDuration, timeUnit |-> OpenRule.chargeTimeUnit],
                 NoGift, now)
        ELSE NoRange]

\* variant: a missing window is written as a missing end time
CanAlwaysBuild(x) == FALSE

\* x.serviceTimeRange!.endTime of a device without a window throws
CannotBuild(x) == x.asset.serviceEndTime = Null /\ x.serviceTimeRange = NoRange

\* bindDevicesToUser and bindDeviceToUserCore up to the await of the transaction
BindDevicesToUser(c) ==
    LET k == calls[c]
        ranged == [i \in 1..Len(k.devices) |-> WithServiceTimeRange(k.devices[i])]
    IN
    /\ k.kind = "bind" /\ k.pc = "called"
    /\ calls' = [calls EXCEPT ![c] =
          IF \E i \in 1..Len(ranged) : CannotBuild(ranged[i])
          THEN Reject(k, "build")
          ELSE [k EXCEPT !.pc = "transaction", !.devices = ranged, !.nowtime = now]]
    /\ UNCHANGED <<now, trackers, lookup, serviceApplied, db, downstream, delivered>>

\* variant: every bind writes the end of its window
BoundAssetWithWindow(row, x, userId, nowtime) ==
    [row EXCEPT !.userId = userId, !.serviceStartTime = nowtime,
                !.serviceEndTime = x.serviceTimeRange.endTime,
                !.trackerBoundAt = nowtime]

\* the asset update of one device
BoundAsset(row, x, userId, nowtime) ==
    IF x.asset.serviceEndTime # Null
    THEN [row EXCEPT !.userId = userId, !.serviceStartTime = nowtime,
                     !.trackerBoundAt = nowtime]
    ELSE [row EXCEPT !.userId = userId, !.serviceStartTime = nowtime,
                     !.serviceEndTime = x.serviceTimeRange.endTime,
                     !.trackerBoundAt = nowtime]

\* the tasks of the first n devices, run in order on <<asset, assetNotificationConfig>>
RECURSIVE RunTasks(_, _, _, _, _)
RunTasks(tables, devices, userId, nowtime, n) ==
    IF n = 0 THEN tables
    ELSE LET before == RunTasks(tables, devices, userId, nowtime, n - 1)
             x == devices[n]
         IN  <<[before[1] EXCEPT ![x.asset.id] = BoundAsset(@, x, userId, nowtime)],
               [before[2] EXCEPT ![x.asset.id] = @ + Cardinality(AlarmTypeEnums)]>>

\* variant: the tasks run one by one, outside a transaction
TransactionOneByOne(tables, devices, userId, nowtime, failAt) ==
    IF failAt = 0 THEN RunTasks(tables, devices, userId, nowtime, Len(devices))
    ELSE RunTasks(tables, devices, userId, nowtime, failAt - 1)

\* prisma.$transaction(tasks): all tasks, or none when the tasks of device failAt fail
Transaction(tables, devices, userId, nowtime, failAt) ==
    IF failAt = 0 THEN RunTasks(tables, devices, userId, nowtime, Len(devices))
    ELSE tables

BindTransaction(c) ==
    LET k == calls[c] IN
    /\ k.kind = "bind" /\ k.pc = "transaction"
    /\ \E failAt \in 0..Len(k.devices) :
          LET after == Transaction(<<assets, notifConfigs>>, k.devices, k.userId,
                                   k.nowtime, failAt)
          IN  /\ assets' = after[1]
              /\ notifConfigs' = after[2]
              /\ calls' = [calls EXCEPT ![c] =
                    IF failAt = 0 THEN [k EXCEPT !.pc = "fanout", !.committed = TRUE]
                    ELSE Reject(k, "transaction")]
    /\ UNCHANGED <<now, trackers, lookup, serviceApplied, orders, coupons, downstream, delivered>>

BatchAssets(k) == {k.devices[i].asset.id : i \in 1..Len(k.devices)}
\* variant: the change event names the first device only
BatchTrackersFirstOnly(k) == {k.devices[1].tracker}

BatchTrackers(k) == {k.devices[i].tracker : i \in 1..Len(k.devices)}
Refreshes(k) == {<<"refresh", a>> : a \in BatchAssets(k)}
ClearStatus == <<"clear", "all">>
SendBatch == <<"cdc", "all">>

\* await Promise.all([...createAlarmConfigTasks, batchClearRealtimeStatus(...)]):
\* every request was made when the array was built; those in failed reject
BindFanOut(c) ==
    LET k == calls[c] IN
    /\ k.kind = "bind" /\ k.pc = "fanout"
    /\ \E failed \in SUBSET (Refreshes(k) \cup {ClearStatus}) :
          calls' = [calls EXCEPT ![c] =
                LET tried == [k EXCEPT !.attempted = Refreshes(k) \cup {ClearStatus}]
                IN  IF failed = {} THEN [tried EXCEPT !.pc = "bind_cdc"]
                    ELSE Reject(tried, "fanout")]
    /\ UNCHANGED <<now, trackers, lookup, serviceApplied, db, downstream, delivered>>

BindSendToCDCBatch(c) ==
    LET k == calls[c]
        tried == [k EXCEPT !.attempted = @ \cup {SendBatch}]
    IN
    /\ k.kind = "bind" /\ k.pc = "bind_cdc"
    /\ \E ok \in BOOLEAN :
          IF ok
          THEN /\ cdcEvents' = [t \in TrackerIds |->
                      IF t \in BatchTrackers(k) THEN cdcEvents[t] + 1 ELSE cdcEvents[t]]
               /\ calls' = [calls EXCEPT ![c] = Return(tried, Resolved)]
          ELSE /\ cdcEvents' = cdcEvents
               /\ calls' = [calls EXCEPT ![c] = Reject(tried, "cdc")]
    /\ UNCHANGED <<now, trackers, lookup, serviceApplied, db, profitSharing, delivered>>

\* ---- synchronous helpers: package resolution and order status ----
MaxPackages == 3
MerchantIds == {"m1", "m2"}
TrackerModelIds == {"x", "y"}

NoPackage == [id |-> 0, merchantId |-> NoId, trackereModels |-> {}]
NoDevice == [trackerModelId |-> NoId, asset |-> [merchantId |-> NoId]]

\* Array.prototype.find: the first element, in the order of the array, that
\* passes the test (test[i] is the callback's answer for element i);
\* NoPackage stands for undefined
RECURSIVE find(_, _, _)
find(devicePackages, test, i) ==
    IF i > Len(devicePackages) THEN NoPackage
    ELSE IF test[i] THEN devicePackages[i]
    ELSE find(devicePackages, test, i + 1)

isModelMatch(devicePackage, trackerWithAsset) ==
    \E deviceModel \in devicePackage.trackereModels : deviceModel = trackerWithAsset.trackerModelId

\* variant: one pass that takes a merchant or a platform package, whichever comes first
findDevicePackageInOnePass(trackerWithAsset, devicePackages) ==
    LET anyMatch == [i \in DOMAIN devicePackages |->
                       /\ \/ devicePackages[i].merchantId = trackerWithAsset.asset.merchantId
                          \/ devicePackages[i].merchantId = NoId
                       /\ isModelMatch(devicePackages[i], trackerWithAsset)]
    IN find(devicePackages, anyMatch, 1)

findDevicePackageByDevice(trackerWithAsset, devicePackages) ==
    LET isMerchantMatch == [i \in DOMAIN devicePackages |->
                              /\ devicePackages[i].merchantId = trackerWithAsset.asset.merchantId
                              /\ isModelMatch(devicePackages[i], trackerWithAsset)]
        isPlatformMatch == [i \in DOMAIN devicePackages |->
                              /\ devicePackages[i].merchantId = NoId
                              /\ isModelMatch(devicePackages[i], trackerWithAsset)]
        merchantDevicePackages == find(devicePackages, isMerchantMatch, 1)
    IN IF merchantDevicePackages # NoPackage THEN merchantDevicePackages
       ELSE find(devicePackages, isPlatformMatch, 1)

Unpaid == "Unpaid"
Paid == "Paid"
RefundPending == "RefundPending"
Refunded == "Refunded"
NoStatus == ""

mapOrderStatus(order) ==
    IF order.paidAt = Null THEN Unpaid
    ELSE IF order.paidAt # Null /\ order.refundedAt = Null THEN Paid
    ELSE IF order.refundApplyAt # Null /\ order.refundedAt = Null THEN RefundPending
    ELSE IF order.refundedAt # Null THEN Refunded
    ELSE NoStatus

NoLookup == [op |-> "none", device |-> NoDevice, devicePackages |-> <<>>, order |-> NoOrder,
             devicePackage |-> NoPackage, status |-> NoId]

\* the candidate lists: every package carries its position as id, so that two
\* packages of a list are never the same record
PackageLists ==
    UNION {[1..n -> [merchantId : MerchantIds \cup {NoId}, trackereModels : SUBSET TrackerModelIds]]
             : n \in 0..MaxPackages}

Candidates(list) ==
    [i \in DOMAIN list |-> [id |-> i, merchantId |-> list[i].merchantId,
                            trackereModels |-> list[i].trackereModels]]

Devices == [trackerModelId : TrackerModelIds, asset : [merchantId : MerchantIds \cup {NoId}]]

Times == {Null} \cup 0..MaxNow

FindDevicePackageByDevice ==
    /\ lookup.op = "find"
    /\ lookup' = [lookup EXCEPT !.op = "found",
                     !.devicePackage = findDevicePackageByDevice(lookup.device, lookup.devicePackages)]
    /\ UNCHANGED <<now, trackers, db, downstream, calls, delivered, serviceApplied>>

MapOrderStatus ==
    /\ lookup.op = "map"
    /\ lookup' = [lookup EXCEPT !.op = "mapped", !.status = mapOrderStatus(lookup.order)]
    /\ UNCHANGED <<now, trackers, db, downstream, calls, delivered, serviceApplied>>

\* ---- the environment ----
Tick ==
    /\ now < MaxNow
    /\ now' = now + 1
    /\ UNCHANGED <<trackers, lookup, serviceApplied, db, downstream, calls, delivered>>

\* ---- initial state ----
\* the orders of a run, all on asset a1: an activation, a renewal, and a third
\* order that is a renewal (v = 1) or of a target the service does not know
\* (v = 2); v also varies the gift fields and the profit-sharing flags
NewOrder(o, v) ==
    [NoOrder EXCEPT
       !.id = o, !.assetId = "a1",
       !.orderTarget = CASE o = "o1" -> Activate
                         [] o = "o2" -> Renewal
                         [] OTHER -> IF v = 1 THEN Renewal ELSE "Upgrade",
       !.servicePeriod = IF o = "o2" THEN 3 ELSE 1,
       !.servicePeriodTimeUnit = IF o = "o2" THEN "day" ELSE "week",
       !.giftDuration = CASE o = "o1" -> IF v = 1 THEN 2 ELSE Null
                          [] o = "o2" -> IF v = 1 THEN 2 ELSE Null
                          [] OTHER -> 1,
       !.giftTimeUnit = CASE o = "o1" -> IF v = 1 THEN "day" ELSE NoId
                          [] o = "o2" -> IF v = 1 THEN NoId ELSE "day"
                          [] OTHER -> "day",
       !.isNeedProfitSharing = IF o = "o3" THEN FALSE ELSE v = 1]

\* tracker t1 carries asset a1, t2 carries a2; the silent period of a tracker
\* ends at 1 (v = 1) or has ended at 0 (v = 2); isRelatedOpen is that of the
\* device package resolved for the tracker
NewTracker(t, v, related) ==
    [id |-> t, assetId |-> IF t = "t1" THEN "a1" ELSE "a2",
     silentPeriodEndTime |-> IF v = 1 THEN 1 ELSE 0,
     isRelatedOpen |-> related[t]]

\* an asset nobody has bound or activated yet
NewAsset(a) ==
    [NoAsset EXCEPT !.id = a, !.trackerId = IF a = "a1" THEN "t1" ELSE "t2"]

\* an asset an earlier bind activated at time 0 with a one-week bind rule
ActivatedAsset(a) ==
    [NewAsset(a) EXCEPT !.userId = "u1", !.serviceStartTime = 0,
                        !.serviceEndTime = 7, !.trackerBoundAt = 0]

InitTables(v, activated, related) ==
    /\ now = 0
    /\ trackers = [t \in TrackerIds |-> NewTracker(t, v, related)]
    /\ orders = [o \in OrderIds |-> NewOrder(o, v)]
    /\ assets = [a \in AssetIds |-> IF a \in activated THEN ActivatedAsset(a) ELSE NewAsset(a)]
    /\ coupons = [k \in CouponIds |->
                   [NoCoupon EXCEPT !.id = k,
                                    !.activity = IF k = "k1" THEN DOUBLE_TWELVE ELSE "OTHER"]]
    /\ notifConfigs = [a \in AssetIds |-> IF a \in activated THEN Cardinality(AlarmTypeEnums) ELSE 0]
    /\ cdcEvents = [t \in TrackerIds |-> 0]
    /\ profitSharing = [o \in OrderIds |-> 0]
    /\ calls = [c \in Calls |-> IdleCall]
    /\ delivered = 0
    /\ serviceApplied = {}

Init ==
    \E v \in {1, 2}, activated \in {{}, {"a1"}} :
       InitTables(v, activated, [t \in TrackerIds |-> TRUE]) /\ lookup = NoLookup

Next ==
    \/ \E c \in Calls, o \in OrderIds : GetOrderAndDeviceDataByOrderNumber(c, o)
    \/ \E c \in Calls, o \in OrderIds : GetOrderByRefundOrderNumber(c, o)
    \/ \E c \in Calls : HandlePaySuccess(c)
    \/ \E c \in Calls : ActivateOrderUpdate(c)
    \/ \E c \in Calls : ActivateAssetUpdate(c)
    \/ \E c \in Calls : ActivateSendToCDC(c)
    \/ \E c \in Calls : ActivateProfitSharing(c)
    \/ \E c \in Calls : RenewOrderUpdate(c)
    \/ \E c \in Calls : RenewCouponFind(c)
    \/ \E c \in Calls : RenewCouponUpdate(c)
    \/ \E c \in Calls : RenewAssetUpdate(c)
    \/ \E c \in Calls : RenewSendToCDC(c)
    \/ \E c \in Calls : RenewProfitSharing(c)
    \/ \E c \in Calls : HandleRefundSuccess(c)
    \/ \E c \in Calls : RefundOrderUpdate(c)
    \/ Tick

Spec == Init /\ [][Next]_vars

\* binding alone: devices never activated, or a1 activated by an earlier bind
NextBind ==
    \/ \E c \in Calls, batch \in Batches, user \in Binders :
          BatchQueryTrackerAsset(c, batch, user)
    \/ \E c \in Calls : BindDevicesToUser(c)
    \/ \E c \in Calls : BindTransaction(c)
    \/ \E c \in Calls : BindFanOut(c)
    \/ \E c \in Calls : BindSendToCDCBatch(c)
    \/ Tick

InitBind ==
    \E v \in {1, 2}, activated \in {{}, {"a1"}}, related \in [TrackerIds -> BOOLEAN] :
       InitTables(v, activated, related) /\ lookup = NoLookup

SpecBind == InitBind /\ [][NextBind]_vars

\* the synchronous helpers on their own: the arguments are drawn at the start
NextHelpers ==
    \/ FindDevicePackageByDevice
    \/ MapOrderStatus

InitHelpers ==
    /\ InitTables(1, {}, [t \in TrackerIds |-> TRUE])
    /\ \/ \E d \in Devices, list \in PackageLists :
             lookup = [NoLookup EXCEPT !.op = "find", !.device = d,
                                       !.devicePackages = Candidates(list)]
       \/ \E paid \in Times, apply \in Times, refunded \in Times :
             lookup = [NoLookup EXCEPT !.op = "map",
                          !.order = [NewOrder("o1", 1) EXCEPT !.paidAt = paid,
                                                              !.refundApplyAt = apply,
                                                              !.refundedAt = refunded]]

SpecHelpers == InitHelpers /\ [][NextHelpers]_vars

\* binding and settlement together, on assets that were never activated: the
\* device t1 is bound, its asset a1 is activated by order o1 and renewed by
\* order o2, and o1 is refunded
LifeBatches == {<<"t1">>}
LifeOrders == {"o1", "o2"}
LifeRefunds == {"o1"}

NextLife ==
    \/ \E c \in Calls, batch \in LifeBatches, user \in Binders :
          BatchQueryTrackerAsset(c, batch, user)
    \/ \E c \in Calls : BindDevicesToUser(c)
    \/ \E c \in Calls : BindTransaction(c)
    \/ \E c \in Calls : BindFanOut(c)
    \/ \E c \in Calls : BindSendToCDCBatch(c)
    \/ \E c \in Calls, o \in LifeOrders : GetOrderAndDeviceDataByOrderNumber(c, o)
    \/ \E c \in Calls, o \in LifeRefunds : GetOrderByRefundOrderNumber(c, o)
    \/ \E c \in Calls : HandlePaySuccess(c)
    \/ \E c \in Calls : ActivateOrderUpdate(c)
    \/ \E c \in Calls : ActivateAssetUpdate(c)
    \/ \E c \in Calls : ActivateSendToCDC(c)
    \/ \E c \in Calls : ActivateProfitSharing(c)
    \/ \E c \in Calls : RenewOrderUpdate(c)
    \/ \E c \in Calls : RenewCouponFind(c)
    \/ \E c \in Calls : RenewCouponUpdate(c)
    \/ \E c \in Calls : RenewAssetUpdate(c)
    \/ \E c \in Calls : RenewSendToCDC(c)
    \/ \E c \in Calls : RenewProfitSharing(c)
    \/ \E c \in Calls : HandleRefundSuccess(c)
    \/ \E c \in Calls : RefundOrderUpdate(c)
    \/ Tick

InitLife ==
    \E v \in {1, 2}, related \in BOOLEAN :
       InitTables(v, {}, [t \in TrackerIds |-> related]) /\ lookup = NoLookup

SpecLife == InitLife /\ [][NextLife]_vars

\* the same run with a clock that can also jump far ahead once: a device is
\* bound, or an order settled, long after the silent period and the paid time
\* have ended
Later == 8

Elapse ==
    /\ now <= MaxNow
    /\ now' = now + Later
    /\ UNCHANGED <<trackers, lookup, serviceApplied, db, downstream, calls, delivered>>

NextLate ==
    \/ NextLife
    \/ Elapse

SpecLate == InitLife /\ [][NextLate]_vars



\* ======================= properties =======================
\* the step a call takes: every action changes the record of exactly one call
Steps(c) == calls'[c] # calls[c]

PayCalls == {c \in Calls : calls[c].kind = "pay"}
RefundCalls == {c \in Calls : calls[c].kind = "refund"}
BindCalls == {c \in Calls : calls[c].kind = "bind"}

\* C1: a handlePaySuccess call whose order already carries processedAt, whatever
\* its target, returns the "order has been processed" Some value at once and
\* writes nothing: no table and no downstream service changes.
C1_PayIdempotent ==
    [][\A c \in PayCalls :
         (calls[c].pc = "called" /\ calls[c].order.processedAt # Null /\ Steps(c))
         => /\ calls'[c].pc = "done"
            /\ calls'[c].outcome = OrderProcessed
            /\ IsSome(calls'[c].outcome)
            /\ db' = db
            /\ downstream' = downstream]_vars

\* a settlement of an order succeeded and a later call with the re-read order
\* returned "order has been processed"
C1_Witness ==
    \E c, d \in Calls :
       /\ c # d
       /\ calls[c].kind = "pay" /\ calls[c].pc = "done" /\ calls[c].outcome = Success
       /\ calls[d].kind = "pay" /\ calls[d].pc = "done"
       /\ calls[d].outcome = OrderProcessed
       /\ calls[d].order.id = calls[c].order.id
       /\ orders[calls[c].order.id].processedAt # Null

\* the asset update of the settlement is behind the call
Applied(c) ==
    /\ calls[c].kind = "pay"
    /\ \/ calls[c].pc \in {"activate_cdc", "activate_profit", "renew_cdc", "renew_profit"}
       \/ calls[c].pc = "done" /\ calls[c].outcome = Success
       \/ calls[c].pc = "done" /\ calls[c].failedAt \in {"cdc", "profit"}

\* C2: of two handlePaySuccess calls for the same order, at most one changes the
\* asset's service window; the other returns the idempotent no-op outcome.
C2_NoDoubleApply ==
    \A c, d \in Calls :
       (c # d /\ calls[c].order.id = calls[d].order.id)
       => ~(Applied(c) /\ Applied(d))

\* C5: a settlement whose profit-sharing request or change-event publication
\* failed still completes with the success outcome, the order stays processed.
C5_BestEffortDownstream ==
    \A c \in PayCalls :
       (calls[c].pc = "done" /\ calls[c].failedAt \in {"profit", "cdc"})
       => /\ calls[c].outcome = Success
          /\ orders[calls[c].order.id].processedAt # Null

\* C6: a settlement of an unprocessed Renewal order whose asset has no
\* serviceEndTime updates no asset and no coupon, publishes no event, requests no
\* profit sharing, and returns the "service end time is null" Some value.
C6_RenewNeverActivated ==
    [][\A c \in PayCalls :
         (/\ Running(c) /\ Steps(c)
          /\ calls[c].order.orderTarget = Renewal
          /\ calls[c].order.processedAt = Null
          /\ calls[c].userAsset.serviceEndTime = Null)
         => /\ assets' = assets
            /\ coupons' = coupons
            /\ downstream' = downstream
            /\ calls'[c].pc \in {"renew_order", "done"}
            /\ calls'[c].pc = "done"
                  => calls'[c].outcome = EndTimeIsNull /\ IsSome(calls'[c].outcome)]_vars

C6_Witness ==
    \E c \in Calls :
       /\ calls[c].kind = "pay" /\ calls[c].pc = "done"
       /\ calls[c].outcome = EndTimeIsNull
       /\ orders[calls[c].order.id].orderTarget = Renewal
       /\ assets[orders[calls[c].order.id].assetId].serviceEndTime = Null

\* C7: a handleRefundSuccess call whose order already carries refundedAt returns
\* the "order has been refunded" Some value and writes nothing.
C7_RefundIdempotent ==
    [][\A c \in RefundCalls :
         (calls[c].pc = "called" /\ calls[c].order.refundedAt # Null /\ Steps(c))
         => /\ calls'[c].pc = "done"
            /\ calls'[c].outcome = OrderRefunded
            /\ db' = db
            /\ downstream' = downstream]_vars

\* a refund was recorded and a redelivered callback with the re-read order,
\* arriving later, was ignored
C7_Witness ==
    \E c \in Calls :
       /\ calls[c].kind = "refund" /\ calls[c].pc = "done"
       /\ calls[c].outcome = OrderRefunded
       /\ orders[calls[c].order.id].refundedAt # Null
       /\ orders[calls[c].order.id].refundedAt < now

\* C8: once set, processedAt (with paidAmount, paidAt, externalOrderNumber) and
\* refundedAt (with refundedAmount) of an order never change again.
C8_WriteOnce ==
    [][\A o \in OrderIds :
         /\ orders[o].processedAt # Null
               => /\ orders'[o].processedAt = orders[o].processedAt
                  /\ orders'[o].paidAmount = orders[o].paidAmount
                  /\ orders'[o].paidAt = orders[o].paidAt
                  /\ orders'[o].externalOrderNumber = orders[o].externalOrderNumber
         /\ orders[o].refundedAt # Null
               => /\ orders'[o].refundedAt = orders[o].refundedAt
                  /\ orders'[o].refundedAmount = orders[o].refundedAmount]_vars

\* the window of an opening, written out from the order's fields and the clock
ExpectedStart(silentEnd, current) == IF current < silentEnd THEN current ELSE silentEnd

ExpectedEnd(start, order) ==
    LET ruled == start + order.servicePeriod * UnitLength(order.servicePeriodTimeUnit)
    IN  IF order.giftDuration # Null /\ order.giftTimeUnit # NoId
        THEN ruled + order.giftDuration * UnitLength(order.giftTimeUnit)
        ELSE ruled

\* C9: the window computed for an activation starts at now when now is before
\* the tracker's silent-period end and at the silent-period end otherwise, and
\* ends the rule duration, then the gift duration if there is a gift, after its
\* start; the activation writes exactly this pair to the asset.
WindowInputs ==
    [silentEnd : 0..3, current : 0..3, duration : 1..2, timeUnit : TimeUnits,
     gift : {NoGift, [duration |-> 1, timeUnit |-> "day"], [duration |-> 2, timeUnit |-> "week"]}]

C9_ActivationWindow ==
    /\ \A i \in WindowInputs :
          LET range == calculateServiceTimeRangeForOpen(
                           [silentPeriodEndTime |-> i.silentEnd],
                           [duration |-> i.duration, timeUnit |-> i.timeUnit],
                           i.gift, i.current)
              ruled == range.startTime + i.duration * UnitLength(i.timeUnit)
          IN  /\ range.startTime = ExpectedStart(i.silentEnd, i.current)
              /\ range.endTime = IF i.gift = NoGift THEN ruled
                                 ELSE ruled + i.gift.duration * UnitLength(i.gift.timeUnit)
    /\ [][\A c \in PayCalls :
         /\ (calls[c].pc = "activate_order" /\ Steps(c))
            => LET start == ExpectedStart(trackers[calls[c].tracker].silentPeriodEndTime, now)
               IN  calls'[c].timeRange =
                      [startTime |-> start, endTime |-> ExpectedEnd(start, calls[c].order)]
         /\ (calls[c].pc = "activate_asset" /\ calls'[c].pc = "activate_cdc")
            => assets'[calls[c].userAsset.id] =
                  [assets[calls[c].userAsset.id] EXCEPT
                     !.serviceStartTime = calls[c].timeRange.startTime,
                     !.serviceEndTime = calls[c].timeRange.endTime]]_vars

\* an activation made after the silent period ended wrote a window that starts
\* at the silent-period end
C9_Witness ==
    \E c \in Calls :
       /\ calls[c].kind = "pay" /\ calls[c].pc = "activate_cdc"
       /\ trackers[calls[c].tracker].silentPeriodEndTime < now
       /\ orders[calls[c].order.id].processedAt = now
       /\ calls[c].timeRange.startTime = trackers[calls[c].tracker].silentPeriodEndTime
       /\ assets[calls[c].userAsset.id].serviceStartTime = calls[c].timeRange.startTime
       /\ assets[calls[c].userAsset.id].serviceEndTime
             = calls[c].timeRange.startTime + 7

\* C10: the asset update of a renewal sets serviceEndTime to the serviceEndTime of
\* the asset the settlement was given, advanced by the order's service period and
\* by its gift when both gift fields are set, whatever the clock shows, and
\* leaves every other field of the asset as it was.
C10_RenewalExtension ==
    [][\A c \in PayCalls :
         (calls[c].pc = "renew_asset" /\ calls'[c].pc # "done" /\ Steps(c))
         => /\ calls[c].order.orderTarget = Renewal
            /\ calls[c].order.processedAt = Null
            /\ calls[c].userAsset.serviceEndTime # Null
            /\ assets'[calls[c].userAsset.id] =
                  [assets[calls[c].userAsset.id] EXCEPT
                     !.serviceEndTime =
                        ExpectedEnd(calls[c].userAsset.serviceEndTime, calls[c].order)]]_vars

\* a renewal with a gift extended an activated asset after the clock moved
C10_Witness ==
    \E c \in Calls :
       /\ calls[c].kind = "pay" /\ calls[c].pc = "renew_cdc"
       /\ calls[c].order.giftDuration # Null /\ calls[c].order.giftTimeUnit # NoId
       /\ now > 0
       /\ assets[calls[c].userAsset.id].serviceEndTime
             = ExpectedEnd(calls[c].userAsset.serviceEndTime, calls[c].order)
       /\ assets[calls[c].userAsset.id].serviceStartTime = calls[c].userAsset.serviceStartTime

\* C3: a bind whose tasks cannot be built, or whose transaction fails at any
\* device, changes no asset and creates no notification config; a transaction
\* that commits binds every asset of the batch and creates the notification
\* configs of every asset of the batch.
C3_BindAtomic ==
    [][\A c \in BindCalls :
         /\ (calls[c].pc = "called" /\ Steps(c))
            => assets' = assets /\ notifConfigs' = notifConfigs
         /\ (calls[c].pc = "transaction" /\ Steps(c))
            => IF calls'[c].pc = "done"
               THEN assets' = assets /\ notifConfigs' = notifConfigs
               ELSE \A a \in BatchAssets(calls[c]) :
                       /\ assets'[a].userId = calls[c].userId
                       /\ assets'[a].trackerBoundAt = calls[c].nowtime
                       /\ notifConfigs'[a] = notifConfigs[a] + Cardinality(AlarmTypeEnums)]_vars

\* a bind of two devices failed at its second device and the first is unbound
C3_Witness ==
    \E c \in Calls :
       /\ calls[c].kind = "bind" /\ calls[c].pc = "done"
       /\ calls[c].failedAt \in {"build", "transaction"}
       /\ Len(calls[c].devices) = 2
       /\ trackers[calls[c].devices[1].tracker].isRelatedOpen
       /\ \A a \in BatchAssets(calls[c]) : assets[a].userId = NoId /\ notifConfigs[a] = 0

\* C4: once the transaction has committed, every alarm refresh, the status clear
\* and the change-event publication have each been attempted when the bind ends.
C4_FanOutInFull ==
    \A c \in BindCalls :
       (calls[c].pc = "done" /\ calls[c].committed)
       => calls[c].attempted = Refreshes(calls[c]) \cup {ClearStatus, SendBatch}

\* ---- C12 ----
\* the end of the window of a bind made at time current
BindWindowEnd(t, current) ==
    ExpectedStart(trackers[t].silentPeriodEndTime, current)
       + OpenRule.chargeDuration * UnitLength(OpenRule.chargeTimeUnit)

\* C12: a bind that commits sets, on the asset of every device of its batch,
\* userId to the target user and serviceStartTime and trackerBoundAt to the
\* bind's now; when the device's asset came with a serviceEndTime the stored
\* serviceEndTime is left as it is, and when it came with none the
\* serviceEndTime becomes the end of the window computed for the device.
C12_RebindKeepsEndTime ==
    [][\A c \in BindCalls :
         (calls[c].pc = "transaction" /\ calls'[c].pc = "fanout")
         => \A i \in 1..Len(calls[c].devices) :
               LET x == calls[c].devices[i]
                   a == x.asset.id
               IN  /\ assets'[a].userId = calls[c].userId
                   /\ assets'[a].serviceStartTime = calls[c].nowtime
                   /\ assets'[a].trackerBoundAt = calls[c].nowtime
                   /\ x.asset.serviceEndTime # Null
                         => assets'[a].serviceEndTime = assets[a].serviceEndTime
                   /\ x.asset.serviceEndTime = Null
                         => assets'[a].serviceEndTime = BindWindowEnd(x.tracker, calls[c].nowtime)]_vars

\* an asset that was paid through to 7 was bound again, after the clock moved,
\* by another user whose package opens a window: the end is still 7
C12_Witness ==
    \E c \in BindCalls :
       /\ calls[c].pc = "fanout"
       /\ calls[c].nowtime > 0
       /\ \E i \in 1..Len(calls[c].devices) :
             LET x == calls[c].devices[i] IN
             /\ x.asset.serviceEndTime = ActivatedAsset(x.asset.id).serviceEndTime
             /\ x.isRelatedOpen
             /\ assets[x.asset.id].userId = calls[c].userId
             /\ assets[x.asset.id].serviceStartTime = calls[c].nowtime
             /\ assets[x.asset.id].serviceEndTime = x.asset.serviceEndTime
       /\ \E i \in 1..Len(calls[c].devices) :
             LET x == calls[c].devices[i] IN
             /\ x.asset.serviceEndTime = Null
             /\ assets[x.asset.id].serviceEndTime = x.serviceTimeRange.endTime

\* ---- C13 ----
\* C13: a bind whose batch holds a device of a package that does not open
\* service at binding (no window is computed for it) and whose asset was never
\* activated does not fail: it goes on to its transaction, and when the
\* transaction commits the asset belongs to the user and its serviceEndTime
\* is still null.
C13_DeferredBilling ==
    [][\A c \in BindCalls :
         LET deferred == {i \in 1..Len(calls[c].devices) :
                            /\ ~calls[c].devices[i].isRelatedOpen
                            /\ calls[c].devices[i].asset.serviceEndTime = Null}
         IN  /\ (calls[c].pc = "called" /\ Steps(c) /\ deferred # {})
                => calls'[c].pc = "transaction"
             /\ (calls[c].pc = "transaction" /\ calls'[c].pc = "fanout")
                => \A i \in deferred :
                      /\ assets'[calls[c].devices[i].asset.id].userId = calls[c].userId
                      /\ assets'[calls[c].devices[i].asset.id].serviceEndTime = Null]_vars

\* ---- C14 ----
\* C14: a bind has made no alarm refresh, status clear or change-event request
\* unless its transaction committed; the steps before the commit, and the abort,
\* publish nothing; the steps after the commit, failing or not, leave the asset
\* and notification-config tables as committed; and the bind that resolves has
\* published one change event for each tracker of its batch and for no other.
C14_SideEffectsAfterCommit ==
    /\ [](\A c \in BindCalls : calls[c].attempted # {} => calls[c].committed)
    /\ [][\A c \in BindCalls :
            /\ (calls[c].pc \in {"called", "transaction"} /\ Steps(c))
               => /\ downstream' = downstream
                  /\ calls'[c].attempted = {}
                  /\ calls'[c].pc = "done" => ~calls'[c].committed
            /\ (calls[c].pc \in {"fanout", "bind_cdc"} /\ Steps(c))
               => /\ calls[c].committed
                  /\ assets' = assets /\ notifConfigs' = notifConfigs
                  /\ calls'[c].outcome # Resolved => cdcEvents' = cdcEvents
            /\ (Steps(c) /\ calls'[c].outcome = Resolved)
               => \A t \in TrackerIds :
                     cdcEvents'[t] = cdcEvents[t] +
                        (IF \E i \in 1..Len(calls[c].devices) : calls[c].devices[i].tracker = t
                         THEN 1 ELSE 0)]_vars

\* one bind committed and then failed in its fan-out, leaving its asset bound
\* and nothing published; another bind, of two devices, resolved, and one event
\* was published for each of its trackers
C14_Witness ==
    \E c \in BindCalls, d \in BindCalls :
       /\ calls[c].pc = "done" /\ calls[c].failedAt = "fanout" /\ calls[c].committed
       /\ calls[c].attempted = Refreshes(calls[c]) \cup {ClearStatus}
       /\ calls[d].pc = "done" /\ calls[d].outcome = Resolved
       /\ Len(calls[d].devices) = 2
       /\ \A a \in AssetIds : assets[a].userId \in Binders
       /\ \A t \in TrackerIds : cdcEvents[t] = 1

\* ---- C15 ----
\* C15: a coupon is marked used only by a renewal whose attach names it, when it
\* carries the promotional tag and had no usedAt, and it is then linked to that
\* renewal's order; a coupon that has a usedAt keeps its usedAt and its orderId
\* in every later step; a renewal whose attach names no such coupon goes on to
\* extend the asset.
C15_CouponWriteOnce ==
    [][/\ \A k \in CouponIds :
            /\ coupons[k].usedAt # Null => coupons'[k] = coupons[k]
            /\ coupons'[k] # coupons[k]
                  => \E c \in PayCalls :
                        /\ Steps(c) /\ calls[c].order.orderTarget = Renewal
                        /\ calls[c].attach = k
                        /\ coupons[k].activity = DOUBLE_TWELVE
                        /\ coupons'[k].orderId = calls[c].order.id
       /\ \A c \in PayCalls :
            (/\ calls[c].pc = "renew_coupon_find" /\ Steps(c)
             /\ ~(/\ calls[c].attach \in CouponIds
                  /\ coupons[calls[c].attach].activity = DOUBLE_TWELVE
                  /\ coupons[calls[c].attach].usedAt = Null))
            => calls'[c].pc = "renew_asset"]_vars

\* ---- C16 ----
\* C16: a handleRefundSuccess call given an order without refundedAt changes,
\* in all its steps, nothing but that order's refundedAmount and refundedAt,
\* which become the refunded amount and time it was given: the other fields of
\* the order, the other orders, the assets, the trackers, the coupons and the
\* notification configs stay as they are and nothing is published downstream.
C16_RefundFinancialOnly ==
    [][\A c \in RefundCalls :
         (Steps(c) /\ calls[c].order.refundedAt = Null)
         => /\ orders' = [orders EXCEPT ![calls[c].order.id] =
                  IF calls[c].pc = "refund_order"
                  THEN [@ EXCEPT !.refundedAmount = calls[c].amount,
                                 !.refundedAt = calls[c].at]
                  ELSE @]
            /\ assets' = assets /\ trackers' = trackers /\ coupons' = coupons
            /\ notifConfigs' = notifConfigs
            /\ cdcEvents' = cdcEvents /\ profitSharing' = profitSharing]_vars

\* a refund was recorded on an order that was paid, processed and applied to an
\* asset, and the asset still carries the service the order bought
C16_Witness ==
    \E c \in RefundCalls :
       /\ calls[c].pc = "done" /\ calls[c].outcome = Success
       /\ LET o == orders[calls[c].order.id] IN
          /\ o.refundedAt # Null /\ o.refundedAmount = Amount
          /\ o.processedAt # Null /\ o.paidAmount = Amount
          /\ o.id \in serviceApplied
          /\ assets[o.assetId].serviceEndTime # Null

\* ---- C19 ----
Quiescent == \A c \in Calls : ~Running(c)

\* C19: when no call is in flight, every Activate or Renewal order that carries
\* a processedAt has had its service period written to its asset.
C19_NoOrderConsumedWithoutService ==
    Quiescent =>
       \A o \in OrderIds :
          (orders[o].orderTarget \in {Activate, Renewal} /\ orders[o].processedAt # Null)
          => o \in serviceApplied

\* ---- C20 ----
\* C20: when the only two settlements of a run were for two different Renewal
\* orders on the asset that was paid through at the start, and both returned
\* O.none, the asset's serviceEndTime is the initial one advanced by the service
\* period and gift of both orders.
C20_RenewalsAccumulate ==
    \A c, d \in PayCalls :
       (/\ c # d /\ delivered = 2
        /\ calls[c].pc = "done" /\ calls[c].outcome = Success
        /\ calls[d].pc = "done" /\ calls[d].outcome = Success
        /\ calls[c].order.id # calls[d].order.id
        /\ orders[calls[c].order.id].orderTarget = Renewal
        /\ orders[calls[d].order.id].orderTarget = Renewal
        /\ orders[calls[c].order.id].assetId = orders[calls[d].order.id].assetId)
       => LET a == orders[calls[c].order.id].assetId IN
          assets[a].serviceEndTime =
             ExpectedEnd(ExpectedEnd(ActivatedAsset(a).serviceEndTime, orders[calls[c].order.id]),
                         orders[calls[d].order.id])

\* ---- C17 ----
\* the step is the commit of a bind that computed a window for the device of asset a
BindWithWindowWrites(a) ==
    \E c \in BindCalls :
       /\ calls[c].pc = "transaction" /\ calls'[c].pc = "fanout"
       /\ \E i \in 1..Len(calls[c].devices) :
             /\ calls[c].devices[i].asset.id = a
             /\ calls[c].devices[i].serviceTimeRange # NoRange

\* the step is the asset write of an Activate settlement on asset a
ActivateWrites(a) ==
    \E c \in PayCalls :
       /\ calls[c].order.orderTarget = Activate /\ calls[c].userAsset.id = a
       /\ calls[c].pc = "activate_asset" /\ calls'[c].pc = "activate_cdc"

\* C17: starting from assets without serviceEndTime, an asset has a
\* serviceEndTime exactly when a bind that computed a window or an Activate
\* settlement has written it: only these two writes take a serviceEndTime from
\* null to a value, and each of them leaves a value; no step of a bind, a
\* payment or a refund takes a serviceEndTime back to null; no step of a
\* Renewal settlement takes it from null to a value.
C17_ActivationInvariant ==
    [][\A a \in AssetIds :
         /\ assets[a].serviceEndTime # Null => assets'[a].serviceEndTime # Null
         /\ (assets[a].serviceEndTime = Null /\ assets'[a].serviceEndTime # Null)
               => (BindWithWindowWrites(a) \/ ActivateWrites(a))
         /\ (BindWithWindowWrites(a) \/ ActivateWrites(a))
               => assets'[a].serviceEndTime # Null
         /\ \A c \in PayCalls :
               (calls[c].order.orderTarget = Renewal /\ Steps(c))
               => (assets[a].serviceEndTime = Null => assets'[a].serviceEndTime = Null)]_vars

\* an asset became active by an Activate settlement and was then bound by a
\* bind that computed no window: it still has its end time; the other asset was
\* never written and has none
C17_Witness ==
    /\ "o1" \in serviceApplied
    /\ \E c \in BindCalls :
          /\ calls[c].pc = "fanout"
          /\ \E i \in 1..Len(calls[c].devices) :
                /\ calls[c].devices[i].asset.id = "a1"
                /\ calls[c].devices[i].asset.serviceEndTime # Null
                /\ calls[c].devices[i].serviceTimeRange = NoRange
    /\ assets["a1"].serviceEndTime # Null
    /\ assets["a1"].userId \in Binders
    /\ assets["a2"].serviceEndTime = Null

\* ---- C11 ----
MerchantMatches(d, ps) ==
    {i \in DOMAIN ps : ps[i].merchantId = d.asset.merchantId /\ d.trackerModelId \in ps[i].trackereModels}

PlatformMatches(d, ps) ==
    {i \in DOMAIN ps : ps[i].merchantId = NoId /\ d.trackerModelId \in ps[i].trackereModels}

First(S) == CHOOSE i \in S : \A j \in S : i <= j

\* C11: the resolved package is the first one of the list, in the caller's
\* order, of the device's merchant and model; when there is none, the first
\* platform package (no merchant) of the device's model; when there is none
\* either, no package. An earlier platform package never wins over a merchant
\* package, and the answer is a function of the arguments.
C11_MerchantFirst ==
    lookup.op = "found" =>
       LET d == lookup.device
           ps == lookup.devicePackages
           m == MerchantMatches(d, ps)
           p == PlatformMatches(d, ps)
       IN /\ m # {} => lookup.devicePackage = ps[First(m)]
          /\ m = {} /\ p # {} => lookup.devicePackage = ps[First(p)]
          /\ m = {} /\ p = {} => lookup.devicePackage = NoPackage

\* a platform package of the model stands before the merchant's package, and
\* the merchant's package is the one resolved
C11_Witness ==
    /\ lookup.op = "found"
    /\ lookup.device.asset.merchantId # NoId
    /\ \E i \in PlatformMatches(lookup.device, lookup.devicePackages) :
          /\ i < First(MerchantMatches(lookup.device, lookup.devicePackages) \cup {MaxPackages + 1})
          /\ MerchantMatches(lookup.device, lookup.devicePackages) # {}
    /\ lookup.devicePackage.merchantId = lookup.device.asset.merchantId


\* ---- C18 ----
\* C18: the status of an order is Unpaid exactly when paidAt is null,
\* RefundPending when it is paid, a refund was applied for (refundApplyAt set)
\* and refundedAt is null, Refunded when it is paid and refundedAt is set, and
\* never the empty string for a paid or unpaid order of the lifecycle.
C18_RefundPendingReached ==
    lookup.op = "mapped" =>
       LET order == lookup.order IN
       /\ lookup.status = Unpaid <=> order.paidAt = Null
       /\ order.paidAt # Null /\ order.refundApplyAt # Null /\ order.refundedAt = Null
             => lookup.status = RefundPending
       /\ order.paidAt # Null /\ order.refundedAt # Null => lookup.status = Refunded
       /\ lookup.status # NoStatus


\* ---- C21 ----
\* C21: every asset that has both a serviceStartTime and a serviceEndTime has
\* its serviceStartTime at or before its serviceEndTime.
C21_WindowWellOrdered ==
    \A a \in AssetIds :
       (assets[a].serviceStartTime # Null /\ assets[a].serviceEndTime # Null)
       => assets[a].serviceStartTime <= assets[a].serviceEndTime

\* ---- C22 ----
\* C22: every order with a refundedAt also has a paidAt and a processedAt, and
\* an order has a paidAt exactly when it has a processedAt.
C22_OrderLifecycle ==
    \A o \in OrderIds :
       /\ orders[o].refundedAt # Null
             => (orders[o].paidAt # Null /\ orders[o].processedAt # Null)
       /\ orders[o].paidAt # Null <=> orders[o].processedAt # Null


====
